---- MODULE Spec2Model ----
(***************************************************************************)
(* KRAVEN: event-to-identity resolution pipeline, metadata resolvers and   *)
(* stream supervisor.                                                      *)
(*                                                                         *)
(* Specifications over one set of variables:                               *)
(*   SpecFetch    the three retrying resolver fetches (src/api/*.ts)       *)
(*   SpecExtract  extractXHandle on a metadata record                      *)
(*   SpecDiscover discoverWalletsFromDoppler on a search response          *)
(*   Spec       the log handlers, the store and the /add, /remove commands *)
(*   SpecSup    the reconnect supervisor (src/chain/listener.ts)           *)
(*   SpecLegacy the earlier handler handleTokenCreatedLog                  *)
(*   SpecConc   handlers and supervisor interleaved on the event loop      *)
(*   SpecAdd    two concurrent addWatchedAccount calls (src/db.ts)         *)
(***************************************************************************)
EXTENDS Integers, Sequences, FiniteSets, TLC

\* ------------------------------------------------------------------ bounds
NumHandles == 2
NumWallets == 1
MaxCalls == 3
MaxStr == 3
MaxLaunches == 2
MaxEvents == 1

\* ------------------------------------------------------- program constants
MAX_RETRIES == 3

\* ------------------------------------------------------------------ domains
Null == "null"

HandleNames == <<"alice", "bob", "carol", "dave">>
Handles == {HandleNames[i] : i \in 1..NumHandles}

WalletNames == <<"0xaa", "0xbb", "0xcc">>
Wallets == {WalletNames[i] : i \in 1..NumWallets}

\* '0x' + undefined: what handleClankerTokenCreatedLog computes for a log
\* without a second indexed topic.
UndefinedAddress == "0xundefined"
Addrs == Wallets \cup {UndefinedAddress}

VARIABLES
    \* SpecFetch
    fKind,          \* which resolver is fetching
    fOuts,          \* outcome of the backing call on attempt 1..MAX_RETRIES
    fRes,           \* what the fetch returned (status "pending" before)
    \* Spec: the store
    watched,        \* table watched_accounts: set of handles
    wallets,        \* table watched_wallets: set of <<x_handle, wallet_address>>
    \* Spec: one log handler invocation per subscription family
    h,
    learned,        \* ghost: addresses whose mapping an indexer-path match stored
    \* SpecSup
    sup,
    \* SpecExtract
    ex,             \* one extractXHandle call: the record, whether it ran, its result
    \* SpecDiscover
    dw,             \* one discoverWalletsFromDoppler call: query, response, result
    \* SpecLegacy
    lg,             \* one handleTokenCreatedLog invocation
    \* SpecAdd
    ad              \* two addWatchedAccount calls and the watchlist table

fetchVars == <<fKind, fOuts, fRes>>
storeVars == <<watched, wallets>>
pipeVars == <<watched, wallets, h, learned>>
supVars == <<sup>>
pureVars == <<ex, dw, lg, ad>>
vars == <<fKind, fOuts, fRes, watched, wallets, h, learned, sup, ex, dw, lg, ad>>

\* ====================================================== metadata resolvers

\* What one backing HTTP call can yield: a transport error, an empty / non-array
\* / no-match response, or a payload. A payload carries the name (or none), the
\* handle its source exposes after the resolver's own normalisation (or none),
\* and whether the Clanker platform fields mention Bankr.
Payloads == [kind : {"data"}, name : {"Tok", Null}, x : Handles \cup {Null}, bankr : BOOLEAN]
Failures == {[kind |-> k, name |-> Null, x |-> Null, bankr |-> FALSE] : k \in {"err", "empty"}}
Outcomes == Failures \cup Payloads
OutcomeSeqs == [1..MAX_RETRIES -> Outcomes]

Resolvers == {"clanker", "doppler", "bankr"}

\* The value a fetch returns. found = FALSE, raised = FALSE is the definitive
\* not-found (null; for the overlay the record with xHandle null and
\* isBankrLaunch false). trace lists the backing calls and the sleeps in order.
NotFound(trace) ==
    [found |-> FALSE, raised |-> FALSE, name |-> Null, x |-> Null, platform |-> Null, trace |-> trace]

Raised(trace) ==
    [found |-> FALSE, raised |-> TRUE, name |-> Null, x |-> Null, platform |-> Null, trace |-> trace]

\* extractPlatform: 'via Bankr' when a platform field mentions bankr.
extractPlatform(data) == IF data.bankr THEN "via Bankr" ELSE "via Clanker"

\* name = tokenData.name ?? 'Unknown'
NameOrUnknown(data) == IF data.name = Null THEN "Unknown" ELSE data.name

\* Faults of the sleep guard: one retry short, and sleeping after every attempt.
SleepOneShort(attempt) == attempt < MAX_RETRIES - 1
SleepAlways(attempt) == TRUE

\* if (attempt < MAX_RETRIES) await sleep(RETRY_DELAY_MS)
ShouldSleep(attempt) == attempt < MAX_RETRIES

SleepAfter(attempt, trace) ==
    IF ShouldSleep(attempt) THEN Append(trace, "sleep") ELSE trace

\* for (let attempt = 1; attempt <= MAX_RETRIES; attempt++)
LoopContinues(attempt) == attempt <= MAX_RETRIES

\* Fault of the catch block: the error of the last attempt is thrown on.
RethrowsOnLast(attempt) == attempt = MAX_RETRIES

\* What the catch block of the retry loop does with a thrown backing call:
\* log it and fall through to the next iteration.
CatchRethrows(attempt) == FALSE

RECURSIVE fetchClankerLoop(_, _, _)
fetchClankerLoop(outs, attempt, trace) ==
    IF ~LoopContinues(attempt) THEN NotFound(trace)
    ELSE LET o == outs[attempt]
             t == Append(trace, o.kind)
         IN CASE o.kind = "err" ->
                    IF CatchRethrows(attempt) THEN Raised(t)
                    ELSE fetchClankerLoop(outs, attempt + 1, SleepAfter(attempt, t))
              [] o.kind = "empty" ->
                    IF ShouldSleep(attempt)
                    THEN fetchClankerLoop(outs, attempt + 1, Append(t, "sleep"))
                    ELSE NotFound(t)
              [] OTHER ->
                    [found |-> TRUE, raised |-> FALSE, name |-> NameOrUnknown(o),
                     x |-> o.x, platform |-> extractPlatform(o), trace |-> t]

fetchClankerToken(outs) == fetchClankerLoop(outs, 1, <<>>)

RECURSIVE fetchDopplerLoop(_, _, _)
fetchDopplerLoop(outs, attempt, trace) ==
    IF ~LoopContinues(attempt) THEN NotFound(trace)
    ELSE LET o == outs[attempt]
             t == Append(trace, o.kind)
         IN CASE o.kind = "err" ->
                    IF CatchRethrows(attempt) THEN Raised(t)
                    ELSE fetchDopplerLoop(outs, attempt + 1, SleepAfter(attempt, t))
              [] o.kind = "empty" ->
                    IF ShouldSleep(attempt)
                    THEN fetchDopplerLoop(outs, attempt + 1, Append(t, "sleep"))
                    ELSE NotFound(t)
              [] OTHER ->
                    [found |-> TRUE, raised |-> FALSE, name |-> NameOrUnknown(o),
                     x |-> o.x, platform |-> "Doppler", trace |-> t]

fetchDopplerToken(outs) == fetchDopplerLoop(outs, 1, <<>>)

\* fetchBankrSocial: a payload is a launch matching the token address; "empty"
\* is a non-array response or a list without a match.
RECURSIVE fetchBankrLoop(_, _, _)
fetchBankrLoop(outs, attempt, trace) ==
    IF ~LoopContinues(attempt) THEN NotFound(trace)
    ELSE LET o == outs[attempt]
             t == Append(trace, o.kind)
         IN CASE o.kind = "err" ->
                    IF CatchRethrows(attempt) THEN Raised(t)
                    ELSE fetchBankrLoop(outs, attempt + 1, SleepAfter(attempt, t))
              [] o.kind = "empty" ->
                    IF attempt = MAX_RETRIES
                    THEN NotFound(t)
                    ELSE fetchBankrLoop(outs, attempt + 1, Append(t, "sleep"))
              [] OTHER ->
                    [found |-> TRUE, raised |-> FALSE, name |-> Null,
                     x |-> o.x, platform |-> "Bankr via Doppler", trace |-> t]

fetchBankrSocial(outs) == fetchBankrLoop(outs, 1, <<>>)

Fetch(kind, outs) ==
    CASE kind = "clanker" -> fetchClankerToken(outs)
      [] kind = "doppler" -> fetchDopplerToken(outs)
      [] OTHER -> fetchBankrSocial(outs)

Pending == [found |-> FALSE, raised |-> FALSE, name |-> Null, x |-> Null,
            platform |-> "pending", trace |-> <<>>]

\* =================================================================== store

\* Fault of the watchlist lookup: any successful query counts as a hit.
AlwaysWatched(xHandle) == TRUE

\* watched_accounts: .eq('x_handle', xHandle.toLowerCase()).maybeSingle();
\* a store error is thrown to the caller. Handles are kept lower-case by every
\* writer, so the lower-casing is the identity on them.
isHandleWatched(xHandle) == xHandle \in watched

\* watched_wallets rows for one wallet address.
RowsForWallet(walletAddress) == {r \in wallets : r[2] = walletAddress}

\* maybeSingle() yields the row when exactly one matches, null when none does
\* and an error when several do.
MaybeSingleFails(rows) == Cardinality(rows) > 1

\* getHandleByWallet: null on a store error (ok = FALSE), on a maybeSingle
\* error and on no row; else the row's x_handle.
getHandleByWallet(walletAddress, ok) ==
    LET rows == RowsForWallet(walletAddress)
    IN IF ~ok \/ MaybeSingleFails(rows) \/ rows = {} THEN Null
       ELSE (CHOOSE r \in rows : TRUE)[1]

\* saveWalletMapping: upsert on (x_handle, wallet_address); FALSE, and no row,
\* on a store error.
saveWalletMapping(xHandle, walletAddress, ok) ==
    IF ok THEN wallets \cup {<<xHandle, walletAddress>>} ELSE wallets

\* ============================================================ log handlers

Subs == {"clanker", "doppler"}

NoToken == [found |-> FALSE, name |-> Null, x |-> Null, platform |-> Null]
NoAlert ==
    [sent |-> FALSE, handle |-> Null, platform |-> Null, name |-> Null, symbol |-> Null,
     delivered |-> FALSE]

Delays(trace) == Cardinality({i \in 1..Len(trace) : trace[i] = "sleep"})

\* A fetch result as the handler sees it: the record, or null (found = FALSE).
Token(res) ==
    [found |-> res.found, name |-> res.name, x |-> res.x, platform |-> res.platform]

\* Every value each fetch can return, over all outcomes of its backing calls.
ClankerResults == {fetchClankerToken(outs) : outs \in OutcomeSeqs}
DopplerResults == {fetchDopplerToken(outs) : outs \in OutcomeSeqs}
BankrResults == {fetchBankrSocial(outs) : outs \in OutcomeSeqs}

\* The same values with only the sleeps of the trace kept (the handlers never
\* see which backing call failed how).
IsSleep(e) == e = "sleep"
SleepsOnly(res) == [res EXCEPT !.trace = SelectSeq(@, IsSleep)]
ClankerReturns == {SleepsOnly(r) : r \in ClankerResults}
DopplerReturns == {SleepsOnly(r) : r \in DopplerResults}
BankrReturns == {SleepsOnly(r) : r \in BankrResults}
PrimaryReturns(p) == IF p = "clanker" THEN ClankerReturns ELSE DopplerReturns

Idle ==
    [pc |-> "idle", topic2 |-> Null, dep |-> Null, lookupOk |-> FALSE, mapped |-> {},
     wasLearned |-> FALSE, cached |-> Null, path |-> "none", fastDelays |-> 0, token |-> NoToken,
     social |-> NoToken, xHandle |-> Null, platform |-> Null, name |-> Null,
     looked |-> Null, wasWatched |-> FALSE, upserts |-> <<>>, alert |-> NoAlert,
     hist |-> 0, outcome |-> "none", topic1 |-> TRUE, escaped |-> FALSE,
     histFailed |-> FALSE, meanwhile |-> {}, seq |-> 0, lookedUp |-> FALSE,
     symbol |-> Null, counted |-> 0]

\* deployerAddress as each handler decodes it from topics[2].
\*   Clanker: ('0x' + log.topics?.[2]?.slice(-40))?.toLowerCase()
\*   Doppler: rawCreator ? ('0x' + rawCreator.slice(-40)).toLowerCase() : null
DecodeDeployer(p, topic2) ==
    IF p = "clanker"
    THEN (IF topic2 = Null THEN UndefinedAddress ELSE topic2)
    ELSE topic2

\* Fault: the deployer guard never lets the fast path in.
NeverTruthy(v) == FALSE

\* if (deployerAddress) { ... }
Truthy(v) == v # Null

LearnSource(p) == IF p = "clanker" THEN "Learned (Clanker)" ELSE "Learned (Doppler)"

\* Fault: the missing-handle return is left out.
NeverNoHandle(xHandle) == FALSE

\* if (!token.xHandle) return;   /   if (!xHandle) { ...skipping; return; }
NoHandle(xHandle) == xHandle = Null

\* Fault: the overlay's handle only fills in for a missing primary handle.
PrimaryWins(primaryX, overlayX) == overlayX # Null /\ primaryX = Null

\* Doppler handler, lines 342-352: the overlay's handle supersedes the primary's.
OverlayWins(primaryX, overlayX) == overlayX # Null

ResolvedHandle(primaryX, overlayX) ==
    IF OverlayWins(primaryX, overlayX) THEN overlayX ELSE primaryX

ResolvedPlatform(primaryX, overlayX) ==
    IF OverlayWins(primaryX, overlayX) THEN "Bankr via Doppler" ELSE "Doppler"

\* The platform of a fast-path alert: token?.platform || 'via Clanker' / 'Doppler'.
FastPlatform(p, token) ==
    IF p = "clanker"
    THEN (IF token.found THEN token.platform ELSE "via Clanker")
    ELSE "Doppler"

\* name: token?.name || 'Unknown'
AlertName(token) == IF token.found THEN token.name ELSE "Unknown"

\* symbol: token?.symbol || 'UNKNOWN'. The symbol of a token that was found
\* is carried as the one value "SYM".
AlertSymbol(token) == IF token.found THEN "SYM" ELSE "UNKNOWN"

\* Fault: every handler gives up when its primary resolver finds nothing.
AlwaysAborts(p) == TRUE

\* if (!token) { logger.warn(...); return; } stands in the Clanker handler
\* only; the Doppler handler goes on with dopplerToken = null.
AbortsOnNotFound(p) == p = "clanker"

\* Fault: the learning step is left out.
NeverLearn(dep) == FALSE

\* if (deployerAddress) await saveWalletMapping(...)
ShouldLearn(dep) == Truthy(dep)

\* Fault: the fast-path alert carries the handle of the fetched token.
HandleFromToken(cached, token) == token.x

\* The handle the fast-path alert carries: xHandle: cachedHandle.
FastHandle(cached, token) == cached

\* Fault: the handler body is not wrapped in a try.
NoBoundary(p) == FALSE

\* try { ... } catch (err) { logger.error('Error handling ... log:', err); }
\* around the whole body of each handler.
HandlerCatches(p) == TRUE

\* Fault: the topic check is left out.
TopicNotChecked(hasTopic1) == FALSE

\* const rawAddress = log.topics?.[1]; if (!rawAddress) return;
MissingTopic(hasTopic1) == ~hasTopic1

\* Fault: the history write is awaited outside a try.
HistoryUncaught(ok) == FALSE

\* try { await saveAlertHistory(...) } catch (err) { logger.error(...) }
HistoryCatches(ok) == TRUE

\* An exception thrown in the handler's body ends the event; escaped records
\* whether it left the handler.
Raise(hh, p) ==
    [hh EXCEPT ![p].pc = "done", ![p].outcome = "error", ![p].escaped = ~HandlerCatches(p)]

Finish(p, how) ==
    IF how = "error" THEN Raise(h, p)
    ELSE [h EXCEPT ![p].pc = "done", ![p].outcome = how]

\* The head of a handler, up to its first await: the topic checks and the
\* decoding of the deployer.
Arrive(p, hasTopic1, topic2) ==
    LET dep == DecodeDeployer(p, topic2)
        ev == [Idle EXCEPT !.topic2 = topic2, !.dep = dep, !.topic1 = hasTopic1]
    IN IF MissingTopic(hasTopic1)
       THEN [Idle EXCEPT !.pc = "done", !.outcome = "dropped", !.topic1 = hasTopic1]
       ELSE IF Truthy(dep) THEN [ev EXCEPT !.pc = "lookup"]
       ELSE [ev EXCEPT !.pc = "fetch", !.path = "indexer"]

\* A log arrives: topics[1] present or not, topics[2] a wallet or absent.
\* Logs are taken one at a time here; the record of the log handled before is
\* dropped when the next one arrives.
Start(p, hasTopic1, topic2) ==
    /\ \A q \in Subs : h[q].pc \in {"idle", "done"}
    /\ h' = [q \in Subs |-> IF q # p THEN Idle ELSE Arrive(p, hasTopic1, topic2)]
    /\ UNCHANGED <<watched, wallets, learned>>

\* PATH A: const cachedHandle = await getHandleByWallet(deployerAddress)
Lookup(p, ok) ==
    /\ h[p].pc = "lookup"
    /\ LET cached == getHandleByWallet(h[p].dep, ok)
       IN h' = [h EXCEPT ![p].cached = cached,
                         ![p].lookedUp = TRUE,
                         ![p].lookupOk = ok,
                         ![p].mapped = {r[1] : r \in RowsForWallet(h[p].dep)},
                         ![p].wasLearned = h[p].dep \in learned,
                         ![p].path = IF cached # Null THEN "fast" ELSE "indexer",
                         ![p].pc = IF cached # Null THEN "fastFetch" ELSE "fetch"]
    /\ UNCHANGED <<watched, wallets, learned>>

\* PATH A: name/symbol fetch, then the alert is built from cachedHandle.
FastFetch(p, res) ==
    /\ h[p].pc = "fastFetch"
    /\ LET token == Token(res)
       IN h' = IF res.raised THEN Finish(p, "error")
               ELSE [h EXCEPT ![p].token = token,
                              ![p].fastDelays = Delays(res.trace),
                              ![p].xHandle = FastHandle(h[p].cached, token),
                              ![p].platform = FastPlatform(p, token),
                              ![p].name = AlertName(token),
                              ![p].symbol = AlertSymbol(token),
                              ![p].pc = "send"]
    /\ UNCHANGED <<watched, wallets, learned>>

\* PATH B: the primary resolver. Clanker returns when the token or its handle
\* is missing; Doppler goes on to the overlay.
FetchPrimary(p, res) ==
    /\ h[p].pc = "fetch"
    /\ LET token == Token(res)
           got == [h EXCEPT ![p].token = token,
                            ![p].xHandle = token.x,
                            ![p].platform = IF p = "clanker" THEN token.platform ELSE "Doppler",
                            ![p].name = AlertName(token),
                            ![p].symbol = AlertSymbol(token)]
       IN h' = IF res.raised THEN Finish(p, "error")
               ELSE IF ~token.found /\ AbortsOnNotFound(p)
               THEN [got EXCEPT ![p].pc = "done", ![p].outcome = "nometa"]
               ELSE IF p = "doppler" THEN [got EXCEPT ![p].pc = "overlay"]
               ELSE IF NoHandle(token.x) THEN [got EXCEPT ![p].pc = "done", ![p].outcome = "nohandle"]
               ELSE [got EXCEPT ![p].pc = "watch"]
    /\ UNCHANGED <<watched, wallets, learned>>

\* PATH B, Doppler: const bankrSocial = await fetchBankrSocial(contractAddress)
FetchOverlay(p, res) ==
    /\ h[p].pc = "overlay"
    /\ LET social == Token(res)
           x == ResolvedHandle(h[p].token.x, social.x)
           got == [h EXCEPT ![p].social = social,
                            ![p].xHandle = x,
                            ![p].platform = ResolvedPlatform(h[p].token.x, social.x)]
       IN h' = IF res.raised THEN Finish(p, "error")
               ELSE IF NoHandle(x) THEN [got EXCEPT ![p].pc = "done", ![p].outcome = "nohandle"]
               ELSE [got EXCEPT ![p].pc = "watch"]
    /\ UNCHANGED <<watched, wallets, learned>>

\* const isWatched = await isHandleWatched(xHandle); if (!isWatched) return;
\* A store error is thrown and caught at the handler's boundary.
Watch(p, ok) ==
    /\ h[p].pc = "watch"
    /\ LET isWatched == isHandleWatched(h[p].xHandle)
           got == [h EXCEPT ![p].looked = h[p].xHandle,
                            ![p].wasWatched = h[p].xHandle \in watched]
       IN h' = IF ~ok THEN Raise(got, p)
               ELSE IF ~isWatched THEN [got EXCEPT ![p].pc = "done", ![p].outcome = "unwatched"]
               ELSE IF ShouldLearn(h[p].dep) THEN [got EXCEPT ![p].pc = "learn"]
               ELSE [got EXCEPT ![p].pc = "send"]
    /\ UNCHANGED <<watched, wallets, learned>>

\* LEARN: await saveWalletMapping(xHandle, deployerAddress, 'Learned (...)')
Learn(p, ok) ==
    /\ h[p].pc = "learn"
    /\ wallets' = saveWalletMapping(h[p].xHandle, h[p].dep, ok)
    /\ learned' = IF ok THEN learned \cup {h[p].dep} ELSE learned
    /\ h' = [h EXCEPT ![p].upserts = Append(@, [handle |-> h[p].xHandle, wallet |-> h[p].dep,
                                                 source |-> LearnSource(p)]),
                      ![p].pc = "send"]
    /\ UNCHANGED watched

\* sendTokenAlert, first half: await sendTelegramMessage(message) (a failed
\* send is caught and logged inside it); alertsSentCount++.
Send(p, delivered) ==
    /\ h[p].pc = "send"
    /\ h' = [h EXCEPT ![p].alert = [sent |-> TRUE, handle |-> h[p].xHandle,
                                     platform |-> h[p].platform, name |-> h[p].name,
                                     symbol |-> h[p].symbol, delivered |-> delivered],
                      ![p].counted = @ + 1,
                      ![p].pc = "history"]
    /\ UNCHANGED <<watched, wallets, learned>>

\* sendTokenAlert, second half: try { await saveAlertHistory(...) } catch { log }
History(p, ok) ==
    /\ h[p].pc = "history"
    /\ h' = IF ok \/ HistoryCatches(ok)
            THEN [h EXCEPT ![p].hist = IF ok THEN @ + 1 ELSE @,
                           ![p].histFailed = ~ok,
                           ![p].pc = "done", ![p].outcome = "alerted"]
            ELSE Raise([h EXCEPT ![p].histFailed = TRUE], p)
    /\ UNCHANGED <<watched, wallets, learned>>

\* ================================================================ commands

\* The record kept of a finished log is dropped at the next operation; a
\* handler in flight keeps its locals.
DropFinished == [q \in Subs |-> IF h[q].pc = "done" THEN Idle ELSE h[q]]

\* /add: addWatchedAccount (throws on an insert error, which ends the command),
\* then the wallet discovery pass and one saveWalletMapping per discovered
\* wallet; saved is the set of discovered wallets whose upsert succeeded.
AddCommand(handle, insertOk, saved) ==
    /\ handle \in watched \/ insertOk
    /\ watched' = watched \cup {handle}
    /\ wallets' = wallets \cup {<<handle, w>> : w \in saved}
    /\ h' = DropFinished
    /\ UNCHANGED learned

\* Fault: removing an account also deletes its wallet mappings.
CascadeDelete(handle) == {m \in wallets : m[1] # handle}

\* removeWatchedAccount deletes from watched_accounts only: the wallet
\* mappings after it are the ones before it.
WalletsAfterRemove(handle) == wallets

\* /remove: removeWatchedAccount deletes the watchlist row, nothing else.
RemoveCommand(handle) ==
    /\ handle \in watched
    /\ watched' = watched \ {handle}
    /\ wallets' = WalletsAfterRemove(handle)
    /\ h' = DropFinished
    /\ UNCHANGED learned

\* =============================================================== supervisor

\* CLANKER_FACTORY_ADDRESSES and DOPPLER_AIRLOCK_ADDRESS
ClankerFactoryList == <<"clanker-v1", "clanker-v2", "clanker-v4">>
ClankerFactories == {"clanker-v1", "clanker-v2", "clanker-v4"}
DopplerAirlock == "doppler-airlock"
AllAddresses == ClankerFactories \cup {DopplerAirlock}

\* Fault: the pending-timer guard is left out.
NeverPending(s) == FALSE

\* if (reconnectTimer) return;
TimerPending(s) == s.reconnectTimer

\* scheduleReconnect up to the setTimeout: a no-op while a timer is pending.
\* timers counts the timer callbacks the event loop holds; since and armedSince
\* count the calls and the timers armed since the last reconnect attempt.
scheduleReconnect(s) ==
    IF TimerPending(s) THEN [s EXCEPT !.since = @ + 1]
    ELSE [s EXCEPT !.reconnectTimer = TRUE, !.timers = @ + 1,
                   !.since = @ + 1, !.armedSince = @ + 1]

\* Fault: the loop has no try of its own, a throwing watchEvent ends startWatching.
NoPerAddressTry(address) == TRUE

\* try { client.watchEvent(...) } catch (err) { logger.error(...) } inside the
\* for loop: a throw ends the attempt for this address only.
ThrowEndsWatching(address) == FALSE

\* for (const factoryAddress of CLANKER_FACTORY_ADDRESSES): failing are the
\* addresses whose watchEvent throws.
RECURSIVE WatchClanker(_, _, _)
WatchClanker(i, failing, acc) ==
    IF i > Len(ClankerFactoryList) THEN acc
    ELSE LET address == ClankerFactoryList[i]
             tried == [acc EXCEPT !.attempted = @ \cup {address}]
         IN IF address \in failing
            THEN (IF ThrowEndsWatching(address) THEN [tried EXCEPT !.thrown = TRUE]
                  ELSE WatchClanker(i + 1, failing, tried))
            ELSE WatchClanker(i + 1, failing, [tried EXCEPT !.recorded = @ \cup {address}])

\* startWatching: unwatchFns = []; the Clanker loop; clankerWsConnected = true;
\* the Doppler watcher in its own try. live are the subscriptions in force.
startWatching(s, failing) ==
    IF s.client = Null THEN s
    ELSE LET c == WatchClanker(1, failing, [attempted |-> {}, recorded |-> {}, thrown |-> FALSE])
             dOk == DopplerAirlock \notin failing
             rec == IF dOk THEN c.recorded \cup {DopplerAirlock} ELSE c.recorded
         IN IF c.thrown
            THEN [s EXCEPT !.unwatchFns = c.recorded, !.live = @ \cup c.recorded,
                           !.attempted = c.attempted, !.failing = failing]
            ELSE [s EXCEPT !.unwatchFns = rec, !.live = @ \cup rec,
                           !.attempted = c.attempted \cup {DopplerAirlock},
                           !.failing = failing,
                           !.clankerWsConnected = TRUE,
                           !.dopplerWsConnected = dOk]

\* Fault: the recorded subscriptions are forgotten without being ended.
ForgetWatchers(s) == [s EXCEPT !.unwatchFns = {}, !.attempted = {}, !.failing = {}]

\* stopWatching: every recorded unwatch is called, then the list is emptied.
\* (attempted and failing describe the subscriptions of the list.)
stopWatching(s) ==
    [s EXCEPT !.live = @ \ s.unwatchFns, !.unwatchFns = {},
              !.attempted = {}, !.failing = {}]

\* client = createWsClient(): the subscriptions still in force on the client
\* that is replaced are out of reach from here on.
createWsClient(s) == [s EXCEPT !.client = "ws", !.stale = @ \cup s.live, !.live = {}]

Disconnected(s) == [s EXCEPT !.clankerWsConnected = FALSE, !.dopplerWsConnected = FALSE]

\* The status messages sent so far, the last two of them.
Note(s, text) ==
    [s EXCEPT !.notes = IF Len(@) < 2 THEN Append(@, text) ELSE <<@[2], text>>]

InitSup ==
    sup \in {[started |-> FALSE, heartbeat |-> FALSE, client |-> Null, alive |-> a,
              reconnectTimer |-> FALSE, timers |-> 0, since |-> 0, armedSince |-> 0,
              clankerWsConnected |-> FALSE, dopplerWsConnected |-> FALSE,
              unwatchFns |-> {}, live |-> {}, stale |-> {}, attempted |-> {},
              failing |-> {}, backoff |-> "none", notes |-> <<>>,
              lastMsg |-> Null] : a \in BOOLEAN}

\* setInterval sits in the try block after the awaited probe: it is reached
\* only when the first getBlockNumber succeeded.
HeartbeatRegistered(probeOk) == probeOk

\* startChainListener: connect, probe once, subscribe and start the heartbeat;
\* when the probe throws, only schedule a reconnect.
StartChainListener(failing) ==
    /\ ~sup.started
    /\ LET s0 == [createWsClient(sup) EXCEPT !.started = TRUE,
                                             !.heartbeat = HeartbeatRegistered(sup.alive)]
       IN sup' = IF sup.alive
                 THEN startWatching(s0, failing)
                 ELSE scheduleReconnect(Disconnected(s0))

\* The setInterval callback: a failed getBlockNumber clears both flags and
\* schedules a reconnect. backoff keeps what was in force when the wait began.
Heartbeat ==
    /\ sup.heartbeat
    /\ ~sup.alive
    /\ sup.since < MaxCalls
    /\ sup' = [scheduleReconnect(Disconnected(sup))
                 EXCEPT !.backoff = IF sup.reconnectTimer THEN @
                                    ELSE IF sup.live = {} THEN "bare" ELSE "watching"]

\* The setTimeout callback of scheduleReconnect.
ReconnectFire(throws, failing, delivered) ==
    /\ sup.timers > 0
    /\ LET s0 == stopWatching([sup EXCEPT !.reconnectTimer = FALSE, !.timers = @ - 1,
                                          !.since = 0, !.armedSince = 0,
                                          !.backoff = "none"])
       IN sup' = IF throws
                 THEN scheduleReconnect(Disconnected(s0))
                 ELSE [Note(startWatching(createWsClient(s0), failing), "restored")
                         EXCEPT !.lastMsg = IF delivered THEN "Reconnected" ELSE @]

\* onError of a subscription: only the family's flag is cleared.
SubscriptionError(address) ==
    /\ address \in sup.live
    /\ sup' = IF address = DopplerAirlock
              THEN [sup EXCEPT !.dopplerWsConnected = FALSE]
              ELSE [sup EXCEPT !.clankerWsConnected = FALSE]

\* The endpoint goes down or comes back.
EndpointFlips ==
    sup' = [sup EXCEPT !.alive = ~@]

\* ------------------------------------------------------------ event loop
\* The handlers and the supervisor's callbacks share one event loop. A handler
\* is suspended at each awaited call (resolver fetch, store call, notifier
\* call); each action is one turn of the loop, from one await to the next.

Suspended(p) == h[p].pc \notin {"idle", "done"}

\* Fault: a handler's calls are synchronous and hold the thread.
BlockingCalls(p) == TRUE

\* Every call of a handler is awaited: while it is outstanding the handler
\* holds nothing and the loop runs other callbacks.
HoldsLoop(p) == FALSE

\* who may take a turn: no other handler holds the loop.
OthersYield(who) == \A q \in Subs \ {who} : Suspended(q) => ~HoldsLoop(q)

Family(address) == IF address = DopplerAirlock THEN "doppler" ELSE "clanker"

\* What happened while each suspended event was waiting.
Meanwhile(tag) ==
    [q \in Subs |-> IF Suspended(q) THEN [h[q] EXCEPT !.meanwhile = @ \cup {tag}] ELSE h[q]]

\* onLogs of the subscription at address: for (const log of logs) await
\* handle...Log(log). The logs of one handler are taken one after the other;
\* the other handler may be in the middle of an event.
Deliver(address, hasTopic1, topic2) ==
    LET p == Family(address)
    IN /\ address \in sup.live
       /\ h[p].pc \in {"idle", "done"}
       /\ h[p].seq < MaxEvents
       /\ OthersYield(p)
       /\ h' = [Meanwhile("log") EXCEPT
                  ![p] = [Arrive(p, hasTopic1, topic2) EXCEPT !.seq = h[p].seq + 1]]
       /\ UNCHANGED <<watched, wallets, learned, sup>>

\* The results followed here: first-attempt answers that name no handle or
\* the first one.
Prompt(S) ==
    {r \in S : r.trace = <<>> /\ ~r.raised /\ r.x \in {Null, HandleNames[1]}
                /\ r.platform # "via Bankr" /\ r.name # "Unknown"}

\* The handler of p resumes: the awaited call has returned. Store and notifier
\* calls succeed here; their failures are followed in Spec.
Resume(p) ==
    /\ OthersYield(p)
    /\ \/ Lookup(p, TRUE)
       \/ \E res \in Prompt(PrimaryReturns(p)) : FastFetch(p, res)
       \/ \E res \in Prompt(PrimaryReturns(p)) : FetchPrimary(p, res)
       \/ \E res \in Prompt(BankrReturns) : FetchOverlay(p, res)
       \/ Watch(p, TRUE)
       \/ Learn(p, TRUE)
       \/ Send(p, TRUE)
       \/ History(p, TRUE)
    /\ UNCHANGED sup

ListenerStarts ==
    /\ OthersYield("supervisor")
    /\ StartChainListener({})
    /\ UNCHANGED <<watched, wallets, h, learned>>

Probe ==
    /\ OthersYield("supervisor")
    /\ Heartbeat
    /\ h' = Meanwhile("probe")
    /\ UNCHANGED <<watched, wallets, learned>>

Reconnect ==
    /\ OthersYield("supervisor")
    /\ ReconnectFire(FALSE, {}, TRUE)
    /\ h' = Meanwhile("reconnect")
    /\ UNCHANGED <<watched, wallets, learned>>

Outage ==
    /\ EndpointFlips
    /\ UNCHANGED <<watched, wallets, h, learned>>

\* ------------------------------------------------------------- SpecFetch
\* One fetch per behaviour: the resolver and the outcomes of its backing calls
\* are drawn in the initial state, the action runs the retry loop on them.

InitStore == watched = {} /\ wallets = {}

InitFetch ==
    /\ fKind \in Resolvers
    /\ fOuts \in OutcomeSeqs
    /\ fRes = Pending

RunClanker ==
    /\ fKind = "clanker" /\ fRes = Pending
    /\ fRes' = fetchClankerToken(fOuts)
    /\ UNCHANGED <<fKind, fOuts>>

RunDoppler ==
    /\ fKind = "doppler" /\ fRes = Pending
    /\ fRes' = fetchDopplerToken(fOuts)
    /\ UNCHANGED <<fKind, fOuts>>

RunBankr ==
    /\ fKind = "bankr" /\ fRes = Pending
    /\ fRes' = fetchBankrSocial(fOuts)
    /\ UNCHANGED <<fKind, fOuts>>

\* ==================================================== earlier log handler
\* handleTokenCreatedLog, the handler of the listener variant without wallet
\* learning: one invocation, its position and the messages it has sent.

LegacyIdle ==
    [pc |-> "idle", topic1 |-> TRUE, token |-> NoToken, fetched |-> FALSE,
     sent |-> <<>>, outcome |-> "none"]

LegacyStart(hasTopic1) ==
    /\ lg.pc \in {"idle", "done"}
    /\ lg' = IF MissingTopic(hasTopic1)
             THEN [LegacyIdle EXCEPT !.pc = "done", !.topic1 = hasTopic1, !.outcome = "dropped"]
             ELSE [LegacyIdle EXCEPT !.pc = "fetch"]

\* const token = await fetchClankerToken(contractAddress); when it is null the
\* user is told so with sendTelegramMessage('Could not fetch metadata ...').
LegacyFetch(res) ==
    /\ lg.pc = "fetch"
    /\ LET token == Token(res)
           got == [lg EXCEPT !.token = token, !.fetched = TRUE]
       IN lg' = IF ~token.found
                THEN [got EXCEPT !.sent = Append(@, "could-not-fetch"),
                                 !.pc = "done", !.outcome = "nometa"]
                ELSE IF NoHandle(token.x)
                THEN [got EXCEPT !.pc = "done", !.outcome = "nohandle"]
                ELSE [got EXCEPT !.pc = "watch"]

LegacyWatch(ok) ==
    /\ lg.pc = "watch"
    /\ lg' = IF ~ok THEN [lg EXCEPT !.pc = "done", !.outcome = "error"]
             ELSE IF ~isHandleWatched(lg.token.x)
             THEN [lg EXCEPT !.pc = "done", !.outcome = "unwatched"]
             ELSE [lg EXCEPT !.pc = "send"]

\* await sendTokenAlert(token)
LegacySend ==
    /\ lg.pc = "send"
    /\ lg' = [lg EXCEPT !.sent = Append(@, "alert"), !.pc = "done", !.outcome = "alerted"]

\* ======================================================== handle extraction
\* extractXHandle over a metadata record. A string is a sequence of
\* one-character strings; a field value is a string, an object, a number or
\* undefined.

Str(s) == [t |-> "str", s |-> s, o |-> <<>>]
Undefined == [t |-> "none", s |-> <<>>, o |-> <<>>]
Number == [t |-> "num", s |-> <<>>, o |-> <<>>]
Obj(o) == [t |-> "obj", s |-> <<>>, o |-> o]

\* String.prototype.toLowerCase over the letters in use.
LowerChar(c) ==
    CASE c = "A" -> "a" [] c = "B" -> "b" [] c = "C" -> "c" [] c = "F" -> "f" [] c = "I" -> "i"
      [] c = "M" -> "m" [] c = "N" -> "n" [] c = "O" -> "o" [] c = "X" -> "x"
      [] OTHER -> c
toLowerCase(s) == [i \in 1..Len(s) |-> LowerChar(s[i])]

IsSpace(c) == c = " "
\* [A-Za-z0-9_]
IsWordChar(c) ==
    LowerChar(c) \in {"a", "b", "c", "e", "f", "i", "m", "n", "o", "r", "s", "t", "w", "x", "1", "_"}

RECURSIVE TrimStart(_)
TrimStart(s) == IF s # <<>> /\ IsSpace(Head(s)) THEN TrimStart(Tail(s)) ELSE s
RECURSIVE TrimEnd(_)
TrimEnd(s) == IF s # <<>> /\ IsSpace(s[Len(s)]) THEN TrimEnd(SubSeq(s, 1, Len(s) - 1)) ELSE s
trim(s) == TrimEnd(TrimStart(s))

\* .replace(/^@/, '')
StripAt(s) == IF s # <<>> /\ Head(s) = "@" THEN Tail(s) ELSE s

\* (record[field] as string).replace(/^@/, '').trim()
PriorityValue(s) == trim(StripAt(s))

priorityFields ==
    <<"x_handle", "xHandle", "twitter_handle", "twitterHandle",
      "requestor_handle", "requestorHandle", "username", "handle">>
contextFields == <<"social_context", "requestor", "context", "metadata", "creator">>

\* Object.entries(record): the keys a record of this model can carry, in order.
EntryOrder == <<"x_handle", "handle", "social_context", "requestor", "bio">>
Get(record, field) ==
    IF field \in DOMAIN record THEN record[field] ELSE Undefined

\* The hosts of /(?:twitter\.com|x\.com)\/([A-Za-z0-9_]{1,50})/i, slash included.
UrlHosts == {<<"t", "w", "i", "t", "t", "e", "r", ".", "c", "o", "m", "/">>,
             <<"x", ".", "c", "o", "m", "/">>}
MaxCapture == 50

HostAt(s, i) ==
    \E host \in UrlHosts :
        /\ i + Len(host) - 1 <= Len(s)
        /\ toLowerCase(SubSeq(s, i, i + Len(host) - 1)) = host
HostLen(s, i) ==
    Len(CHOOSE host \in UrlHosts :
            /\ i + Len(host) - 1 <= Len(s)
            /\ toLowerCase(SubSeq(s, i, i + Len(host) - 1)) = host)

RECURSIVE WordRun(_, _, _)
WordRun(s, i, n) ==
    IF i <= Len(s) /\ n < MaxCapture /\ IsWordChar(s[i]) THEN WordRun(s, i + 1, n + 1) ELSE n

\* value.match(...): the leftmost match; its capture group, or <<>> when the
\* string has no match.
UrlMatch(s) ==
    LET starts == {i \in 1..Len(s) : HostAt(s, i) /\ WordRun(s, i + HostLen(s, i), 0) > 0}
    IN IF starts = {} THEN <<>>
       ELSE LET i == CHOOSE j \in starts : \A k \in starts : j <= k
                from == i + HostLen(s, i)
            IN SubSeq(s, from, from + WordRun(s, from, 0) - 1)

\* Fault: the reserved segment is compared as written.
ReservedAsWritten(segment) == segment = <<"i">>

\* urlMatch[1].toLowerCase() !== 'i'
Reserved(segment) == toLowerCase(segment) = <<"i">>

NotExtracted == [found |-> FALSE, handle |-> <<>>]
Extracted(handle) == [found |-> TRUE, handle |-> handle]

\* for (const field of priorityFields): the first string that is non-empty and
\* stays non-empty after replace and trim, in lower case.
RECURSIVE PriorityScan(_, _)
PriorityScan(record, i) ==
    IF i > Len(priorityFields) THEN NotExtracted
    ELSE LET v == Get(record, priorityFields[i])
         IN IF v.t = "str" /\ v.s # <<>> /\ PriorityValue(v.s) # <<>>
            THEN Extracted(toLowerCase(PriorityValue(v.s)))
            ELSE PriorityScan(record, i + 1)

\* for (const [, value] of Object.entries(record)): the first string whose
\* leftmost URL match is not the reserved segment.
RECURSIVE UrlScan(_, _)
UrlScan(record, i) ==
    IF i > Len(EntryOrder) THEN NotExtracted
    ELSE LET v == Get(record, EntryOrder[i])
             m == IF v.t = "str" THEN UrlMatch(v.s) ELSE <<>>
         IN IF m # <<>> /\ ~Reserved(m) THEN Extracted(toLowerCase(m))
            ELSE UrlScan(record, i + 1)

\* extractXHandle on an object without nested objects of its own.
ExtractFlat(record) ==
    LET p == PriorityScan(record, 1)
    IN IF p.found THEN p ELSE UrlScan(record, 1)

\* for (const field of contextFields): extractXHandle(record[field]), the
\* whole function, on each nested object in turn.
RECURSIVE ContextScan(_, _)
ContextScan(record, i) ==
    IF i > Len(contextFields) THEN NotExtracted
    ELSE LET v == Get(record, contextFields[i])
             nested == IF v.t = "obj" THEN ExtractFlat(v.o) ELSE NotExtracted
         IN IF nested.found THEN nested ELSE ContextScan(record, i + 1)

extractXHandle(record) ==
    LET p == PriorityScan(record, 1)
        c == ContextScan(record, 1)
    IN IF p.found THEN p
       ELSE IF c.found THEN c
       ELSE UrlScan(record, 1)

\* ------------------------------------------------------------ SpecExtract
\* One extraction per behaviour: the record is drawn in the initial state.

HandleAlphabet == {"@", " ", "F", "o"}
WrittenHandles == UNION {[1..n -> HandleAlphabet] : n \in 0..MaxStr}

TextPlain == <<"h", "i">>
TextReservedUrl == <<"x", ".", "c", "o", "m", "/", "i", "/", "s", "/", "1">>
TextReservedUpper == <<"X", ".", "C", "O", "M", "/", "I">>
TextBarUrl == <<"s", "e", "e", " ", "x", ".", "c", "o", "m", "/", "b", "a", "r", "?", "s", "=", "1">>
TextTwitterUrl == <<"t", "w", "i", "t", "t", "e", "r", ".", "c", "o", "m", "/", "B", "a", "r">>
TextReservedThenBar ==
    <<"x", ".", "c", "o", "m", "/", "i", " ", "x", ".", "c", "o", "m", "/", "b", "a", "r">>
ReservedTexts == {Str(TextReservedUrl), Str(TextReservedUpper)}
Texts ==
    {Undefined, Str(TextPlain), Str(TextBarUrl), Str(TextTwitterUrl), Str(TextReservedThenBar)}
      \cup ReservedTexts

NestedObjects ==
    {Obj([x_handle |-> a, bio |-> b]) :
        a \in {Undefined, Str(<<"N", "e", "s">>)},
        b \in {Undefined, Str(TextBarUrl), Str(TextReservedUpper)}}

Records ==
    {[x_handle |-> a, handle |-> b, social_context |-> c, requestor |-> d, bio |-> e] :
        a \in {Undefined, Number} \cup {Str(s) : s \in WrittenHandles},
        b \in {Undefined, Str(<<"b", "a", "r">>)},
        c \in {Undefined} \cup NestedObjects,
        d \in {Undefined} \cup NestedObjects,
        e \in Texts}

InitExtract ==
    ex \in {[rec |-> r, done |-> FALSE, out |-> NotExtracted] : r \in Records}

InitExtractIdle ==
    ex = [rec |-> [x_handle |-> Undefined, handle |-> Undefined, social_context |-> Undefined,
                   requestor |-> Undefined, bio |-> Undefined],
          done |-> FALSE, out |-> NotExtracted]

RunExtract ==
    /\ ~ex.done
    /\ ex' = [ex EXCEPT !.done = TRUE, !.out = extractXHandle(ex.rec)]

\* ======================================================== watchlist adds
\* addWatchedAccount, called twice at once. rows is the x_handle column of
\* watched_accounts (TEXT UNIQUE); variant tells the store client in use:
\* the Supabase one of src/db.ts or the pg one of the earlier db module.

Callers == {1, 2}
HandleForms == {<<"F", "o">>, <<"f", "o">>, <<"f", "O">>}

InitAdd ==
    ad \in {[variant |-> v, rows |-> r, had |-> r,
             call |-> [c \in Callers |-> [pc |-> "start", arg |-> a[c], ret |-> "none"]]] :
               v \in {"supabase", "pg"},
               r \in {{}, {<<"f", "o">>}},
               a \in [Callers -> HandleForms]}

InitAddIdle ==
    ad = [variant |-> "supabase", rows |-> {}, had |-> {},
          call |-> [c \in Callers |-> [pc |-> "done", arg |-> <<"f", "o">>, ret |-> "none"]]]

\* x_handle TEXT UNIQUE: an insert of a handle that is in the table fails.
UniqueViolation(rows, handle) == handle \in rows

\* src/db.ts: select ... maybeSingle(); if (data) return false;
AddCheck(c) ==
    /\ ad.variant = "supabase"
    /\ ad.call[c].pc = "start"
    /\ LET handle == toLowerCase(ad.call[c].arg)
       IN ad' = IF handle \in ad.rows
                THEN [ad EXCEPT !.call[c].pc = "done", !.call[c].ret = "false"]
                ELSE [ad EXCEPT !.call[c].pc = "insert"]

\* src/db.ts: insert([{ x_handle: handle }]); if (error) throw error; return true;
AddInsert(c) ==
    /\ ad.variant = "supabase"
    /\ ad.call[c].pc = "insert"
    /\ LET handle == toLowerCase(ad.call[c].arg)
       IN ad' = IF UniqueViolation(ad.rows, handle)
                THEN [ad EXCEPT !.call[c].pc = "done", !.call[c].ret = "raised"]
                ELSE [ad EXCEPT !.rows = @ \cup {handle},
                                !.call[c].pc = "done", !.call[c].ret = "true"]

\* pg variant: INSERT in a try; the unique violation 23505 is caught and
\* answered with false.
AddAtomic(c) ==
    /\ ad.variant = "pg"
    /\ ad.call[c].pc = "start"
    /\ LET handle == toLowerCase(ad.call[c].arg)
       IN ad' = IF UniqueViolation(ad.rows, handle)
                THEN [ad EXCEPT !.call[c].pc = "done", !.call[c].ret = "false"]
                ELSE [ad EXCEPT !.rows = @ \cup {handle},
                                !.call[c].pc = "done", !.call[c].ret = "true"]

\* ========================================================= wallet discovery
\* discoverWalletsFromDoppler over the launches the indexer search returns.

RECURSIVE LastIndexOf(_, _, _)
LastIndexOf(s, c, i) ==
    IF i = 0 THEN 0 ELSE IF s[i] = c THEN i ELSE LastIndexOf(s, c, i - 1)
RECURSIVE IndexOf(_, _, _)
IndexOf(s, c, i) ==
    IF i > Len(s) THEN 0 ELSE IF s[i] = c THEN i ELSE IndexOf(s, c, i + 1)

\* x.split('/').pop()
LastSegment(s) == SubSeq(s, LastIndexOf(s, "/", Len(s)) + 1, Len(s))
\* .split('?')[0]
BeforeQuery(s) ==
    LET q == IndexOf(s, "?", 1) IN IF q = 0 THEN s ELSE SubSeq(s, 1, q - 1)

IsTruthy(v) == v.t \in {"num", "obj"} \/ (v.t = "str" /\ v.s # <<>>)
\* a || b
OrElse(a, b) == IF IsTruthy(a) THEN a ELSE b

\* tokenHandle: null (Undefined here) unless metadata is an object whose x or
\* twitter is a non-empty string with a non-empty last segment.
TokenHandle(token) ==
    IF token.metadata.t # "obj" THEN Undefined
    ELSE LET x == OrElse(Get(token.metadata.o, "x"), Get(token.metadata.o, "twitter"))
         IN IF x.t # "str" \/ x.s = <<>> THEN Undefined
            ELSE LET hd == toLowerCase(StripAt(BeforeQuery(LastSegment(x.s))))
                 IN IF hd = <<>> THEN Undefined ELSE Str(hd)

\* targetHandle = xHandle.replace(/^@/, '').toLowerCase()
TargetHandle(xHandle) == Str(toLowerCase(StripAt(xHandle)))

\* Fault: a launch without a handle of its own is let through.
MismatchIfPresent(tokenHandle, targetHandle) ==
    tokenHandle # Undefined /\ tokenHandle # targetHandle

\* if (tokenHandle !== targetHandle) continue;
HandleMismatch(tokenHandle, targetHandle) == tokenHandle # targetHandle

\* creator && typeof creator === 'string' && creator.startsWith('0x')
IsAddress(v) ==
    v.t = "str" /\ Len(v.s) >= 2 /\ v.s[1] = "0" /\ v.s[2] = "x"

InSeq(x, seq) == \E i \in 1..Len(seq) : seq[i] = x
\* wallets.add(...) on a Set, read back with Array.from in insertion order.
SetAdd(seq, x) == IF InSeq(x, seq) THEN seq ELSE Append(seq, x)

RECURSIVE DiscoverLoop(_, _, _, _)
DiscoverLoop(data, i, target, found) ==
    IF i > Len(data) THEN found
    ELSE LET token == data[i]
         IN IF HandleMismatch(TokenHandle(token), target)
            THEN DiscoverLoop(data, i + 1, target, found)
            ELSE IF IsAddress(token.creator)
                 THEN DiscoverLoop(data, i + 1, target, SetAdd(found, toLowerCase(token.creator.s)))
                 ELSE DiscoverLoop(data, i + 1, target, found)

\* response: "array" with the launches, "other" for a body that is not an
\* array, "error" for a request that threw (caught, []).
discoverWalletsFromDoppler(xHandle, response, data) ==
    IF response # "array" THEN <<>>
    ELSE DiscoverLoop(data, 1, TargetHandle(xHandle), <<>>)

\* ----------------------------------------------------------- SpecDiscover
HandleFoo == <<"f", "o", "o">>
FooForms ==
    {Str(HandleFoo), Str(<<"@", "F", "o", "o">>),
     Str(<<"x", ".", "c", "o", "m", "/", "F", "o", "o">>),
     Str(<<"x", ".", "c", "o", "m", "/", "f", "o", "o", "?", "s", "=", "1">>),
     Str(<<"x", ".", "c", "o", "m", "/", "f", "o", "o", "/">>)}
BarForms == {Str(<<"b", "a", "r">>), Str(<<"x", ".", "c", "o", "m", "/", "b", "a", "r">>)}
Queries == {HandleFoo, <<"@", "F", "o", "o">>, <<"F", "O", "O">>}

Creators ==
    {Undefined, Str(<<"0", "x", "A">>), Str(<<"0", "x", "a">>), Str(<<"0", "x", "b">>),
     Str(HandleFoo)}
Launches ==
    {[metadata |-> Obj([x |-> x, twitter |-> t]), creator |-> c] :
        x \in {Undefined, Str(<<>>)} \cup FooForms \cup BarForms,
        t \in {Undefined, Str(HandleFoo)},
        c \in Creators}
      \cup {[metadata |-> Undefined, creator |-> c] : c \in Creators}
LaunchLists == UNION {[1..n -> Launches] : n \in 0..MaxLaunches}

InitDiscover ==
    dw \in {[query |-> q, response |-> "array", data |-> d, done |-> FALSE, out |-> <<>>] :
               q \in Queries, d \in LaunchLists}
            \cup {[query |-> q, response |-> r, data |-> <<>>, done |-> FALSE, out |-> <<>>] :
               q \in Queries, r \in {"other", "error"}}

InitDiscoverIdle ==
    dw = [query |-> HandleFoo, response |-> "error", data |-> <<>>, done |-> FALSE, out |-> <<>>]

RunDiscover ==
    /\ ~dw.done
    /\ dw' = [dw EXCEPT !.done = TRUE,
                        !.out = discoverWalletsFromDoppler(dw.query, dw.response, dw.data)]

\* ========================================================= specifications

InitFetchIdle ==
    /\ fKind = "clanker"
    /\ fOuts = [i \in 1..MAX_RETRIES |-> [kind |-> "err", name |-> Null, x |-> Null, bankr |-> FALSE]]
    /\ fRes = Pending

InitPipe ==
    /\ InitStore
    /\ h = [p \in Subs |-> Idle]
    /\ learned = {}

\* Spec: log handlers and commands over the store.
InitPureIdle == InitExtractIdle /\ InitDiscoverIdle /\ lg = LegacyIdle /\ InitAddIdle

Init == InitFetchIdle /\ InitPipe /\ InitSup /\ sup.alive /\ InitPureIdle

Next ==
    \/ \E p \in Subs, t1 \in BOOLEAN, t2 \in Wallets \cup {Null} :
          Start(p, t1, t2) /\ UNCHANGED <<fetchVars, supVars, pureVars>>
    \/ \E p \in Subs, ok \in BOOLEAN : Lookup(p, ok) /\ UNCHANGED <<fetchVars, supVars, pureVars>>
    \/ \E p \in Subs : \E res \in PrimaryReturns(p) :
          FastFetch(p, res) /\ UNCHANGED <<fetchVars, supVars, pureVars>>
    \/ \E p \in Subs : \E res \in PrimaryReturns(p) :
          FetchPrimary(p, res) /\ UNCHANGED <<fetchVars, supVars, pureVars>>
    \/ \E p \in Subs : \E res \in BankrReturns :
          FetchOverlay(p, res) /\ UNCHANGED <<fetchVars, supVars, pureVars>>
    \/ \E p \in Subs, ok \in BOOLEAN : Watch(p, ok) /\ UNCHANGED <<fetchVars, supVars, pureVars>>
    \/ \E p \in Subs, ok \in BOOLEAN : Learn(p, ok) /\ UNCHANGED <<fetchVars, supVars, pureVars>>
    \/ \E p \in Subs, delivered \in BOOLEAN : Send(p, delivered) /\ UNCHANGED <<fetchVars, supVars, pureVars>>
    \/ \E p \in Subs, ok \in BOOLEAN : History(p, ok) /\ UNCHANGED <<fetchVars, supVars, pureVars>>
    \/ \E handle \in Handles, ok \in BOOLEAN, saved \in SUBSET Wallets :
          AddCommand(handle, ok, saved) /\ UNCHANGED <<fetchVars, supVars, pureVars>>
    \/ \E handle \in Handles : RemoveCommand(handle) /\ UNCHANGED <<fetchVars, supVars, pureVars>>

Spec == Init /\ [][Next]_vars

\* SpecFetch: one resolver fetch.
InitF == InitFetch /\ InitPipe /\ InitSup /\ sup.alive /\ InitPureIdle

NextFetch ==
    \/ RunClanker /\ UNCHANGED <<pipeVars, supVars, pureVars>>
    \/ RunDoppler /\ UNCHANGED <<pipeVars, supVars, pureVars>>
    \/ RunBankr /\ UNCHANGED <<pipeVars, supVars, pureVars>>

SpecFetch == InitF /\ [][NextFetch]_vars

\* SpecSup: the reconnect supervisor.
InitS == InitFetchIdle /\ InitPipe /\ InitSup /\ InitPureIdle

NextSup ==
    \/ \E failing \in SUBSET AllAddresses :
          StartChainListener(failing) /\ UNCHANGED <<fetchVars, pipeVars, pureVars>>
    \/ Heartbeat /\ UNCHANGED <<fetchVars, pipeVars, pureVars>>
    \/ \E throws \in BOOLEAN, failing \in SUBSET AllAddresses, delivered \in BOOLEAN :
          ReconnectFire(throws, failing, delivered) /\ UNCHANGED <<fetchVars, pipeVars, pureVars>>
    \/ \E address \in AllAddresses :
          SubscriptionError(address) /\ UNCHANGED <<fetchVars, pipeVars, pureVars>>
    \/ EndpointFlips /\ UNCHANGED <<fetchVars, pipeVars, pureVars>>

SpecSup == InitS /\ [][NextSup]_vars

\* SpecExtract: one handle extraction.
InitX == InitFetchIdle /\ InitPipe /\ InitSup /\ sup.alive /\ InitExtract /\ InitDiscoverIdle /\ lg = LegacyIdle /\ InitAddIdle

NextExtract ==
    RunExtract /\ UNCHANGED <<fetchVars, pipeVars, supVars, dw, lg, ad>>

SpecExtract == InitX /\ [][NextExtract]_vars

\* SpecDiscover: one wallet discovery.
InitD == InitFetchIdle /\ InitPipe /\ InitSup /\ sup.alive /\ InitExtractIdle /\ InitDiscover /\ lg = LegacyIdle /\ InitAddIdle

NextDiscover ==
    RunDiscover /\ UNCHANGED <<fetchVars, pipeVars, supVars, ex, lg, ad>>

SpecDiscover == InitD /\ [][NextDiscover]_vars

\* SpecLegacy: the earlier handler over a watchlist set up by /add.
InitL ==
    /\ InitFetchIdle /\ InitSup /\ sup.alive /\ InitExtractIdle /\ InitDiscoverIdle
    /\ InitAddIdle
    /\ watched \in SUBSET Handles /\ wallets = {}
    /\ h = [p \in Subs |-> Idle] /\ learned = {}
    /\ lg = LegacyIdle

NextLegacy ==
    \/ \E t1 \in BOOLEAN : LegacyStart(t1) /\ UNCHANGED <<fetchVars, pipeVars, supVars, ex, dw, ad>>
    \/ \E res \in ClankerReturns : LegacyFetch(res) /\ UNCHANGED <<fetchVars, pipeVars, supVars, ex, dw, ad>>
    \/ \E ok \in BOOLEAN : LegacyWatch(ok) /\ UNCHANGED <<fetchVars, pipeVars, supVars, ex, dw, ad>>
    \/ LegacySend /\ UNCHANGED <<fetchVars, pipeVars, supVars, ex, dw, ad>>

SpecLegacy == InitL /\ [][NextLegacy]_vars

\* SpecConc: the two handlers and the supervisor on one event loop, over a
\* watchlist of one handle.
InitC ==
    /\ InitFetchIdle /\ InitSup /\ sup.alive /\ InitPureIdle
    /\ watched = {HandleNames[1]} /\ wallets = {}
    /\ h = [p \in Subs |-> Idle] /\ learned = {}

NextConc ==
    \/ \E a \in AllAddresses, t2 \in Wallets \cup {Null} :
          Deliver(a, TRUE, t2) /\ UNCHANGED <<fetchVars, pureVars>>
    \/ \E p \in Subs : Resume(p) /\ UNCHANGED <<fetchVars, pureVars>>
    \/ ListenerStarts /\ UNCHANGED <<fetchVars, pureVars>>
    \/ Probe /\ UNCHANGED <<fetchVars, pureVars>>
    \/ Reconnect /\ UNCHANGED <<fetchVars, pureVars>>
    \/ Outage /\ UNCHANGED <<fetchVars, pureVars>>

SpecConc == InitC /\ [][NextConc]_vars

\* SpecAdd: two addWatchedAccount calls in any interleaving.
InitA ==
    /\ InitFetchIdle /\ InitPipe /\ InitSup /\ sup.alive
    /\ InitExtractIdle /\ InitDiscoverIdle /\ lg = LegacyIdle
    /\ InitAdd

NextAdd ==
    \/ \E c \in Callers : AddCheck(c) /\ UNCHANGED <<fetchVars, pipeVars, supVars, ex, dw, lg>>
    \/ \E c \in Callers : AddInsert(c) /\ UNCHANGED <<fetchVars, pipeVars, supVars, ex, dw, lg>>
    \/ \E c \in Callers : AddAtomic(c) /\ UNCHANGED <<fetchVars, pipeVars, supVars, ex, dw, lg>>

SpecAdd == InitA /\ [][NextAdd]_vars

\* ================================================================== claims

Returned == fRes # Pending
Calls(trace) == Cardinality({i \in 1..Len(trace) : trace[i] # "sleep"})
AttemptFailed(i) == fOuts[i].kind \in {"err", "empty"}

\* C7 (resolver retry): a fetch whose backing call throws on attempts 1 and 2
\* and yields a payload on attempt 3 returns that payload's record, after
\* exactly 2 inter-attempt delays.
C7_ResolverRetry ==
    (Returned /\ fOuts[1].kind = "err" /\ fOuts[2].kind = "err" /\ fOuts[3].kind = "data")
    => /\ fRes.found /\ ~fRes.raised
       /\ fRes.x = fOuts[3].x
       /\ fKind # "bankr" =>
            fRes.name = (IF fOuts[3].name = Null THEN "Unknown" ELSE fOuts[3].name)
       /\ fKind = "clanker" =>
            fRes.platform = (IF fOuts[3].bankr THEN "via Bankr" ELSE "via Clanker")
       /\ Delays(fRes.trace) = 2
       /\ fRes.trace = <<"err", "sleep", "err", "sleep", "data">>

C7_Witness ==
    /\ Returned /\ fKind = "bankr"
    /\ fOuts[1].kind = "err" /\ fOuts[2].kind = "err" /\ fOuts[3].kind = "data"
    /\ fOuts[3].x # Null /\ fRes.found

\* C8 (resolver exhaustion): when all three attempts fail, by a transport error
\* or an empty response in any mix, the fetch returns the not-found value and
\* raises nothing.
C8_ResolverExhaustion ==
    (Returned /\ \A i \in 1..3 : AttemptFailed(i))
    => /\ ~fRes.found /\ ~fRes.raised
       /\ fRes.x = Null /\ fRes.name = Null

C8_Witness ==
    /\ Returned /\ fKind = "doppler"
    /\ fOuts[1].kind = "err" /\ fOuts[2].kind = "empty" /\ fOuts[3].kind = "err"
    /\ ~fRes.found

\* C9 (bounded retry): every fetch makes at most 3 backing calls and sleeps at
\* most twice; each sleep follows a failed call and is followed by another
\* call, so none comes after the last attempt or after a successful one.
C9_BoundedRetry ==
    Returned =>
        LET t == fRes.trace
        IN /\ Calls(t) <= 3
           /\ Calls(t) >= 1
           /\ Delays(t) <= 2
           /\ \A i \in 1..Len(t) :
                 /\ t[i] = "sleep" =>
                       /\ i > 1 /\ t[i - 1] \in {"err", "empty"}
                       /\ i < Len(t) /\ t[i + 1] # "sleep"
                 /\ t[i] = "data" => i = Len(t)

C9_Witness ==
    /\ Returned /\ fKind = "clanker"
    /\ Delays(fRes.trace) = 2 /\ Calls(fRes.trace) = 3
    /\ fOuts[3].kind = "empty"

Suppressed == {"dropped", "nometa", "nohandle", "unwatched", "error"}
LearnedTags == {"Learned (Clanker)", "Learned (Doppler)"}

\* C1 (fast path precedence): an event whose deployer address had a stored
\* wallet mapping when it was looked up (the lookup itself meeting no store
\* outage) ends with an alert carrying a mapped handle.
C1_FastPathPrecedence ==
    \A p \in Subs :
        (h[p].pc = "done" /\ h[p].topic2 # Null /\ h[p].lookupOk /\ h[p].mapped # {})
        => (h[p].alert.sent /\ h[p].alert.handle \in h[p].mapped)

\* C2 (learning leads to the fast path): an event whose deployer address was
\* learned by an earlier indexer-path match takes the fast path (its lookup
\* meeting no store outage).
C2_LearnedTakesFastPath ==
    \A p \in Subs :
        (h[p].path # "none" /\ h[p].topic2 # Null /\ h[p].lookupOk /\ h[p].wasLearned)
        => h[p].path = "fast"

\* C3 (learning): an indexer-path match for an event with a deployer address
\* makes exactly one wallet-mapping upsert, of (matched handle, deployer
\* address) with a learned tag; a suppressed or fast-path event makes none.
C3_LearnOnce ==
    \A p \in Subs :
        LET e == h[p]
        IN /\ Len(e.upserts) <= 1
           /\ (e.path = "indexer" /\ e.topic2 # Null /\ e.pc \in {"send", "history", "done"}
                 /\ e.outcome \notin Suppressed)
              => /\ Len(e.upserts) = 1
                 /\ e.upserts[1].handle = e.looked
                 /\ e.upserts[1].handle = e.xHandle
                 /\ e.upserts[1].wallet = e.topic2
                 /\ e.upserts[1].source \in LearnedTags
           /\ (e.path = "fast" \/ e.outcome \in Suppressed) => e.upserts = <<>>

C3_Witness ==
    \E p \in Subs :
        /\ h[p].outcome = "alerted" /\ h[p].path = "indexer" /\ h[p].topic2 # Null
        /\ Len(h[p].upserts) = 1 /\ h[p].alert.sent

\* C4 (watchlist negative): on the indexer path, a handle that is not in the
\* watchlist when it is looked up ends the event: no alert, no learned mapping.
C4_WatchlistNegative ==
    \A p \in Subs :
        (h[p].path = "indexer" /\ h[p].looked # Null /\ ~h[p].wasWatched)
        => /\ h[p].pc = "done"
           /\ ~h[p].alert.sent
           /\ h[p].upserts = <<>>
           /\ h[p].hist = 0

C4_Witness ==
    \E p \in Subs :
        /\ h[p].outcome = "unwatched" /\ h[p].looked \in Handles
        /\ watched # {} /\ h[p].topic2 # Null

\* All sources have been asked and none gave a handle, the token record itself
\* having been resolved.
NoHandleFound(p) ==
    /\ h[p].path = "indexer"
    /\ h[p].token.found /\ h[p].token.x = Null
    /\ p = "doppler" => (h[p].pc # "overlay" /\ h[p].social.x = Null)

\* C5 (suppression): a resolvable token record with no handle from any source
\* ends the event with no alert, no wallet-mapping upsert and no history write.
C5_Suppression ==
    \A p \in Subs :
        NoHandleFound(p)
        => /\ h[p].pc = "done" /\ h[p].outcome = "nohandle"
           /\ ~h[p].alert.sent
           /\ h[p].upserts = <<>>
           /\ h[p].hist = 0

C5_Witness ==
    /\ NoHandleFound("doppler") /\ h["doppler"].social.found
    /\ h["doppler"].outcome = "nohandle" /\ watched # {}

\* C6 (overlay precedence): on the Doppler indexer path, when the primary and
\* the overlay resolver both return a handle, the overlay's handle and the
\* label 'Bankr via Doppler' are used for the lookup, the mapping and the alert.
C6_OverlayPrecedence ==
    LET e == h["doppler"]
    IN (e.path = "indexer" /\ e.token.x # Null /\ e.social.x # Null)
       => /\ e.xHandle = e.social.x
          /\ e.platform = "Bankr via Doppler"
          /\ e.looked \in {Null, e.social.x}
          /\ \A i \in 1..Len(e.upserts) : e.upserts[i].handle = e.social.x
          /\ e.alert.sent => (e.alert.handle = e.social.x /\ e.alert.platform = "Bankr via Doppler")

C6_Witness ==
    LET e == h["doppler"]
    IN /\ e.path = "indexer" /\ e.token.x = "alice" /\ e.social.x = "bob"
       /\ e.alert.sent /\ e.alert.handle = "bob" /\ Len(e.upserts) = 1

\* C10 (reconnect idempotence): at most one reconnect timer is pending; the
\* handle is set exactly while it is; and however many times scheduleReconnect
\* has been called since the last reconnect attempt, one timer was armed, so
\* one attempt follows.
C10_ReconnectIdempotent ==
    /\ sup.timers <= 1
    /\ sup.reconnectTimer <=> (sup.timers = 1)
    /\ sup.since >= 1 => (sup.armedSince = 1 /\ sup.timers = 1)

C10_Witness ==
    sup.since >= 2 /\ sup.armedSince = 1 /\ sup.timers = 1 /\ sup.reconnectTimer

\* C11 (the supervisor never silently stops): once startChainListener has
\* run, whether its first probe succeeded or failed, the periodic liveness
\* probe is registered.
C11_ProbeKeepsRunning ==
    sup.started => sup.heartbeat

\* C12 as claimed (teardown before the backoff): while a reconnect is pending
\* no subscription is in force.
C12_TeardownBeforeBackoff ==
    sup.reconnectTimer => sup.live = {}

\* C12 as amended (teardown after the backoff): the backoff begun by a failed
\* probe runs with the subscriptions still in force; the timer callback ends
\* every recorded subscription before it replaces the client, so none of a
\* replaced client stays in force, and a failed attempt leaves none at all.
C12_TeardownAtReconnect ==
    /\ sup.stale = {}
    /\ sup.backoff = "watching" => (sup.reconnectTimer /\ sup.live # {} /\ sup.live = sup.unwatchFns)
    /\ (sup.reconnectTimer /\ sup.backoff = "none") => sup.live = {}

C12_Witness ==
    /\ sup.backoff = "watching" /\ sup.reconnectTimer /\ sup.live # {}
    /\ sup.notes # <<>>

\* C13 (a failed reconnect re-arms the backoff): the started supervisor is
\* never disconnected, both families flagged down, without a reconnect pending.
C13_NeverIdleDisconnected ==
    (sup.started /\ ~sup.clankerWsConnected /\ ~sup.dopplerWsConnected) => sup.reconnectTimer

\* C14 (per-address isolation): startWatching attempts every configured
\* address whichever of them fail, and records exactly the subscriptions that
\* succeeded, which are the ones in force.
C14_PerAddressIsolation ==
    /\ sup.attempted \in {{}, AllAddresses}
    /\ sup.attempted # {} =>
          /\ sup.unwatchFns = AllAddresses \ sup.failing
          /\ sup.live = sup.unwatchFns
    /\ sup.live \subseteq sup.unwatchFns

C14_Witness ==
    /\ sup.attempted = AllAddresses
    /\ sup.failing = {ClankerFactoryList[1]}
    /\ sup.unwatchFns = AllAddresses \ {ClankerFactoryList[1]}

\* C15 (connection-status notifications): status messages alternate between
\* 'lost' and 'restored': no two consecutive messages are of the same kind.
C15_OncePerTransition ==
    Len(sup.notes) = 2 => sup.notes[1] # sup.notes[2]

\* C16 (pipeline boundary): no exception leaves a log handler, and an event
\* whose resolution raised before the alert step ends with no alert, no
\* learned mapping and no history write.
C16_PipelineBoundary ==
    \A p \in Subs :
        /\ ~h[p].escaped
        /\ (h[p].outcome = "error" /\ ~h[p].histFailed)
           => /\ h[p].pc = "done"
              /\ ~h[p].alert.sent
              /\ h[p].upserts = <<>>
              /\ h[p].hist = 0

C16_Witness ==
    \E p \in Subs :
        /\ h[p].outcome = "error" /\ h[p].looked \in watched
        /\ ~h[p].alert.sent /\ h[p].topic2 # Null

\* C17 (history-write failure is tolerated): no history write comes before
\* the alert message, and an alert whose history write failed is still sent
\* and ends the event as alerted, nothing raised.
C17_HistoryFailureTolerated ==
    \A p \in Subs :
        /\ (h[p].hist > 0 \/ h[p].histFailed) => h[p].alert.sent
        /\ h[p].histFailed
           => /\ h[p].pc = "done" /\ h[p].outcome = "alerted"
              /\ h[p].hist = 0
              /\ ~h[p].escaped

C17_Witness ==
    \E p \in Subs :
        h[p].histFailed /\ h[p].alert.sent /\ h[p].alert.delivered /\ h[p].outcome = "alerted"

\* C18 (malformed log): a log without topics[1] is dropped: no store lookup,
\* no resolver call, no learned mapping, no alert, no history write, nothing
\* raised, and the handler has returned so that the next log is taken.
C18_MalformedLogDropped ==
    \A p \in Subs :
        ~h[p].topic1
        => /\ h[p].pc = "done" /\ h[p].outcome = "dropped"
           /\ h[p].path = "none" /\ h[p].cached = Null /\ h[p].mapped = {}
           /\ h[p].token = NoToken /\ h[p].social = NoToken
           /\ h[p].looked = Null
           /\ h[p].upserts = <<>>
           /\ ~h[p].alert.sent /\ h[p].hist = 0
           /\ ~h[p].escaped

C18_Witness ==
    \E p \in Subs :
        ~h[p].topic1 /\ h[p].outcome = "dropped" /\ watched # {} /\ wallets # {}

ResolverLabels == {"via Clanker", "via Bankr", "Doppler", "Bankr via Doppler"}

\* C19 (fast path latency): a fast-path alert is emitted with no resolver
\* inter-attempt delay having elapsed since the cache hit.
C19_FastPathNoDelay ==
    \A p \in Subs :
        (h[p].path = "fast" /\ h[p].alert.sent) => h[p].fastDelays = 0

\* C20 (platform labeling): an alert whose handle came from the cached wallet
\* mapping is labelled as coming from the cache, not with a resolver's label.
C20_CacheLabelled ==
    \A p \in Subs :
        (h[p].path = "fast" /\ h[p].alert.sent) => h[p].alert.platform \notin ResolverLabels

Pad(n) == [i \in 1..n |-> " "]
Core(s) == SelectSeq(s, IsWordChar)

\* A handle written with an optional leading "@", surrounding whitespace and
\* letters of either case.
IsWrittenHandle(s) ==
    /\ Core(s) # <<>>
    /\ \E a \in 0..Len(s), b \in 0..Len(s), at \in {<<>>, <<"@">>} :
          s = Pad(a) \o at \o Core(s) \o Pad(b)

\* C21 (extraction normalization): a record whose first priority field holds
\* a handle written with a leading "@", surrounding whitespace and upper-case
\* letters gives that handle without "@", trimmed, in lower case.
C21_ExtractionNormalized ==
    (ex.done /\ ex.rec.x_handle.t = "str" /\ IsWrittenHandle(ex.rec.x_handle.s))
    => ex.out = Extracted(toLowerCase(Core(ex.rec.x_handle.s)))

NoPriorityHandle(record) ==
    \A i \in 1..Len(priorityFields) :
        LET v == Get(record, priorityFields[i]) IN v.t # "str" \/ v.s = <<>>

TextsOf(record) ==
    {record[f] : f \in {g \in DOMAIN record : record[g].t = "str"}}

\* No priority handle at the top level or in a context object, and the only
\* profile URLs of the record are the ones with the segment "i".
OnlyReservedUrl(record) ==
    LET nested == {record[f].o : f \in {g \in DOMAIN record : record[g].t = "obj"}}
        texts == TextsOf(record) \cup UNION {TextsOf(n) : n \in nested}
    IN /\ NoPriorityHandle(record)
       /\ \A n \in nested : NoPriorityHandle(n)
       /\ texts \subseteq ReservedTexts \cup {Str(TextPlain), Str(<<>>)}
       /\ texts \cap ReservedTexts # {}

\* C22 (reserved segment): a record with no priority or context handle whose
\* only profile-URL segment is "i", in either case, gives null.
C22_ReservedSegment ==
    (ex.done /\ OnlyReservedUrl(ex.rec)) => ex.out = NotExtracted

C22_Witness ==
    /\ ex.done /\ OnlyReservedUrl(ex.rec)
    /\ ex.rec.bio = Str(TextReservedUrl)
    /\ ex.rec.social_context.t = "obj" /\ ex.rec.social_context.o.bio = Str(TextReservedUpper)
    /\ ~ex.out.found

PriorityHandlesOf(record) ==
    {toLowerCase(PriorityValue(Get(record, priorityFields[i]).s)) :
        i \in {j \in 1..Len(priorityFields) :
                 /\ Get(record, priorityFields[j]).t = "str"
                 /\ PriorityValue(Get(record, priorityFields[j]).s) # <<>>}}

PriorityHandlesAnywhere(record) ==
    PriorityHandlesOf(record)
      \cup UNION {PriorityHandlesOf(record[f].o) : f \in {g \in DOMAIN record : record[g].t = "obj"}}

\* C23 (precision policy): when the record has a non-empty priority-field
\* handle at the top level or in a context object, the result is one of the
\* priority-field handles, never a handle captured from a URL.
C23_PriorityOverUrl ==
    (ex.done /\ PriorityHandlesAnywhere(ex.rec) # {})
    => (ex.out.found /\ ex.out.handle \in PriorityHandlesAnywhere(ex.rec))

\* The handle a launch records for itself: metadata.x, or metadata.twitter
\* when x is missing or empty.
RecordedHandle(token) ==
    IF token.metadata.t # "obj" THEN Undefined
    ELSE OrElse(token.metadata.o.x, token.metadata.o.twitter)

\* C24 (strict wallet discovery): every address discoverWalletsFromDoppler
\* returns is the lower-cased creator of a launch whose own recorded handle
\* is the queried handle, and no address is returned twice.
C24_StrictDiscovery ==
    dw.done =>
       /\ \A i \in 1..Len(dw.out) :
             \E k \in 1..Len(dw.data) :
                /\ RecordedHandle(dw.data[k]) \in FooForms
                /\ dw.data[k].creator.t = "str"
                /\ toLowerCase(dw.data[k].creator.s) = dw.out[i]
       /\ \A i, j \in 1..Len(dw.out) : dw.out[i] = dw.out[j] => i = j

C24_Witness ==
    /\ dw.done /\ Len(dw.data) = 2
    /\ RecordedHandle(dw.data[1]) \in BarForms /\ IsAddress(dw.data[1].creator)
    /\ RecordedHandle(dw.data[2]) \in FooForms /\ dw.data[2].creator = Str(<<"0", "x", "A">>)
    /\ dw.out = <<(<<"0", "x", "a">>)>>

\* C25 (transient upstream failures are not surfaced): an event whose
\* metadata fetch ended not-found after its retries has no message sent to
\* the user by handleTokenCreatedLog.
C25_FailureNotSurfaced ==
    (lg.fetched /\ ~lg.token.found) => lg.sent = <<>>

\* C26 (wallet mappings are permanent): no step of the pipeline or of the
\* /add and /remove commands takes a (handle, wallet) mapping out of the store.
C26_MappingsPermanent == [][wallets \subseteq wallets']_vars

\* A mapping that outlived the /remove of its handle.
C26_Witness == \E m \in wallets : m[1] \notin watched

\* C27 (lookup and learning only for events with a deployer address): an
\* event whose log has no second indexed topic never reaches the wallet
\* lookup and saves no mapping, and every mapping an event saves is keyed by
\* the address decoded from its second indexed topic.
C27_OnlyDecodedDeployer ==
    \A p \in Subs :
        /\ (h[p].pc # "idle" /\ h[p].topic2 = Null) =>
               /\ h[p].pc # "lookup"
               /\ h[p].path # "fast"
               /\ h[p].upserts = <<>>
        /\ \A i \in 1..Len(h[p].upserts) : h[p].upserts[i].wallet = h[p].topic2

RacedOn(x, w) ==
    \A p \in Subs :
        /\ h[p].pc = "done" /\ h[p].dep = w /\ h[p].path = "indexer"
        /\ h[p].mapped = {} /\ h[p].xHandle = x /\ h[p].wasWatched

\* C29 (race-tolerant learning): two overlapping events of one unknown
\* deployer that resolve to the same watched handle both end with their alert
\* and no error, and the store then holds the one row (handle, wallet) for
\* that wallet.
C29_RaceTolerantLearning ==
    \A x \in Handles, w \in Wallets :
        RacedOn(x, w) =>
            /\ \A p \in Subs : h[p].outcome = "alerted" /\ ~h[p].escaped
            /\ RowsForWallet(w) = {<<x, w>>}

\* Both events went through the learning step.
C29_Witness ==
    \E x \in Handles, w \in Wallets :
        /\ RacedOn(x, w)
        /\ \A p \in Subs : Len(h[p].upserts) = 1
        /\ \E p \in Subs : "log" \in h[p].meanwhile

\* The event of p is on the indexer path: its primary fetch, overlay query,
\* watchlist lookup or learning step is outstanding or has been made.
OnIndexerPath(p) ==
    \/ h[p].pc \in {"fetch", "overlay", "watch", "learn"}
    \/ h[p].looked # Null
    \/ h[p].upserts # <<>>

\* C30 (fast path first): an event is on the indexer path only after its
\* wallet-mapping lookup has returned no mapping, or when it carries no
\* deployer address.
C30_FastPathFirst ==
    \A p \in Subs :
        OnIndexerPath(p) => (h[p].dep = Null \/ (h[p].lookedUp /\ h[p].cached = Null))

\* An event with a deployer address whose lookup found nothing and whose
\* watchlist lookup has been made.
C30_Witness ==
    \E p \in Subs :
        /\ h[p].dep \in Wallets /\ h[p].lookedUp /\ h[p].cached = Null
        /\ h[p].looked # Null /\ h[p].token.found

\* The capture of the leftmost profile-URL match of s that is not the segment
\* "i", or <<>> when s has none.
FirstUnreserved(s) ==
    LET cap(i) == SubSeq(s, i + HostLen(s, i), i + HostLen(s, i) + WordRun(s, i + HostLen(s, i), 0) - 1)
        starts == {i \in 1..Len(s) :
                     /\ HostAt(s, i) /\ WordRun(s, i + HostLen(s, i), 0) > 0
                     /\ toLowerCase(cap(i)) # <<"i">>}
    IN IF starts = {} THEN <<>>
       ELSE cap(CHOOSE j \in starts : \A k \in starts : j <= k)

RECURSIVE FirstUnreservedFrom(_, _)
FirstUnreservedFrom(record, i) ==
    IF i > Len(EntryOrder) THEN NotExtracted
    ELSE LET v == Get(record, EntryOrder[i])
             m == IF v.t = "str" THEN FirstUnreserved(v.s) ELSE <<>>
         IN IF m # <<>> THEN Extracted(toLowerCase(m))
            ELSE FirstUnreservedFrom(record, i + 1)

NoContextObject(record) ==
    \A i \in 1..Len(contextFields) : Get(record, contextFields[i]).t # "obj"

\* C31 (URL fallback): for a record with no priority handle and no context
\* object, the result is the first profile-URL match over the string fields
\* whose segment is not "i", also when a match with "i" comes before it in
\* the same string.
C31_FirstNonReservedMatch ==
    (ex.done /\ PriorityHandlesOf(ex.rec) = {} /\ NoContextObject(ex.rec))
    => ex.out = FirstUnreservedFrom(ex.rec, 1)

\* SocialHandle form: 1 to 50 letters, digits or underscores, in lower case.
IsCanonical(s) ==
    /\ Len(s) \in 1..MaxCapture
    /\ \A i \in 1..Len(s) : IsWordChar(s[i])
    /\ toLowerCase(s) = s

\* C32 (canonical handle): the handle a resolver hands to the pipeline, which
\* the handler compares with the watchlist, stores and alerts as it is, is in
\* SocialHandle form whatever the payload holds.
C32_CanonicalHandle ==
    (ex.done /\ ex.out.found) => IsCanonical(ex.out.handle)

\* C33 (graceful degradation on the Doppler path): an event whose primary
\* resolver found nothing is not ended for that; and when the overlay then
\* names a handle found on the watchlist, the finished event has its alert,
\* for that handle, with name "Unknown" and symbol "UNKNOWN".
C33_DegradesToOverlay ==
    LET e == h["doppler"]
    IN (e.pc = "done" /\ e.path = "indexer" /\ ~e.token.found) =>
          /\ e.outcome # "nometa"
          /\ (e.social.x # Null /\ e.wasWatched /\ e.outcome # "error") =>
                /\ e.alert.sent /\ e.alert.handle = e.social.x
                /\ e.alert.name = "Unknown" /\ e.alert.symbol = "UNKNOWN"

C33_Witness ==
    LET e == h["doppler"]
    IN /\ e.pc = "done" /\ e.path = "indexer" /\ ~e.token.found
       /\ e.social.x \in watched /\ e.alert.sent /\ e.alert.delivered
       /\ e.alert.name = "Unknown" /\ e.alert.symbol = "UNKNOWN"

\* C34 as stated (every alert is for a watched handle): at the step that
\* sends an alert, its handle is on the watchlist.
C34_AlertOnlyWatched ==
    [][\A p \in Subs :
          (~h[p].alert.sent /\ h'[p].alert.sent) => h'[p].alert.handle \in watched]_vars

\* C34, amended: the handle of an alert is the one the event found on the
\* watchlist at its lookup (indexer path), or the one the store mapped to the
\* event's deployer wallet at its lookup (fast path, which does not read the
\* watchlist).
C34_AlertWatchedOrMapped ==
    \A p \in Subs :
        h[p].alert.sent =>
            \/ /\ h[p].path = "indexer"
               /\ h[p].alert.handle = h[p].looked /\ h[p].wasWatched
            \/ /\ h[p].path = "fast"
               /\ h[p].alert.handle = h[p].cached /\ h[p].mapped = {h[p].alert.handle}

\* A fast-path alert for a handle that is mapped but no longer watched.
C34_Witness ==
    \E p \in Subs :
        /\ h[p].pc = "history" /\ h[p].path = "fast"
        /\ h[p].alert.handle \notin watched
        /\ <<h[p].alert.handle, h[p].dep>> \in wallets

\* C35 (alert accounting matches delivery): what an event adds to
\* alertsSentCount is 1 when its alert message was delivered and 0 otherwise,
\* and it writes a history row only for a delivered alert.
C35_CountMatchesDelivery ==
    \A p \in Subs :
        /\ h[p].counted = (IF h[p].alert.sent /\ h[p].alert.delivered THEN 1 ELSE 0)
        /\ h[p].hist > 0 => h[p].alert.delivered

\* C36 (connected flags reflect subscriptions): clankerWsConnected is set only
\* while a Clanker factory subscription is in force on the current client, and
\* dopplerWsConnected only while the Doppler Airlock subscription is.
C36_FlagsReflectSubscriptions ==
    /\ sup.clankerWsConnected => sup.live \cap ClankerFactories # {}
    /\ sup.dopplerWsConnected => DopplerAirlock \in sup.live

\* C37 (disconnection is always recovered), in the form a finite run refutes:
\* whenever a connected flag of the started supervisor is down, a reconnect is
\* pending or the liveness probe is registered and failing, so that it will
\* schedule one. With a flag down, no timer and a healthy endpoint, nothing
\* in the supervisor ever raises the flag again.
C37_DisconnectionRecovered ==
    (sup.started /\ (~sup.clankerWsConnected \/ ~sup.dopplerWsConnected))
    => (sup.reconnectTimer \/ (sup.heartbeat /\ ~sup.alive))

\* C38 (reconnect is reported only when verified): the step of a reconnect
\* attempt that raises the connected flags and sends 'Reconnected' (the timer
\* callback ending without a new timer) is taken only with the endpoint
\* reachable and leaves at least one subscription in force.
C38_ReconnectVerified ==
    [][(sup'.timers < sup.timers) => (sup.alive /\ sup'.live # {})]_vars

\* C39 (concurrent watchlist adds): two finished calls for one handle, in any
\* letter case, that the table did not hold before: one returned true, the
\* other returned false, neither raised, and the table holds the handle.
C39_ConcurrentAdds ==
    LET a == toLowerCase(ad.call[1].arg)
        b == toLowerCase(ad.call[2].arg)
    IN (ad.call[1].pc = "done" /\ ad.call[2].pc = "done" /\ ad.call[1].ret # "none"
        /\ a = b /\ a \notin ad.had)
       => /\ {ad.call[1].ret, ad.call[2].ret} = {"true", "false"}
          /\ ad.rows = {a}

\* C40 (wallet lookup finds any stored mapping): a lookup the store answered,
\* for a wallet that had one or more mapping rows, returned the handle of one
\* of the rows, and the event took the fast path.
C40_LookupFindsMapping ==
    \A p \in Subs :
        (h[p].lookedUp /\ h[p].lookupOk /\ h[p].mapped # {})
        => (h[p].cached \in h[p].mapped /\ h[p].path = "fast")

====
